---- MODULE Spec2Model ----
(***************************************************************************)
(* Model of the persistent task store of src/src/todo-server.js            *)
(* (class TodoStore and the tool handlers that call it, lines 1-539; the   *)
(* file repeats the program in TypeScript from line 541 on).               *)
(*                                                                         *)
(* The store keeps one JSON file per shard in one directory.  Every public *)
(* operation is an async function; every `await` of a file-system call is  *)
(* a point where the other calls in flight may run, so each file-system    *)
(* call is one step of the model.                                          *)
(*                                                                         *)
(* Strings whose characters matter (content, project, conversation, file   *)
(* names) are tuples of one-character strings.  The JavaScript value       *)
(* `undefined` of an optional field is the tuple <<"undefined">>, which is *)
(* no tuple of characters.  Timestamps are readings of an integer clock.   *)
(***************************************************************************)
EXTENDS Integers, Sequences, FiniteSets, TLC

\* ------------------------------------------------------------------ bounds
\* number of tool calls that can be in flight at once
MaxProcs == 2
\* createTask calls per behaviour (also the number of distinct ids)
MaxCreates == 2
\* tool calls per behaviour, one call at a time
MaxOpsSeq == 3
\* tool calls per behaviour, calls overlapping
MaxOpsConc == 3
\* last reading of the clock
MaxClock == 1

Procs == 1..MaxProcs
Ids == 1..MaxCreates
\* an id generateUUID never returns
UnknownId == MaxCreates + 1

\* ------------------------------------------------------------- data types
undefined == <<"undefined">>

Statuses == {"pending", "in_progress", "completed", "cancelled"}
Priorities == {"high", "medium", "low"}

AlNum ==
  {"a","b","c","d","e","f","g","h","i","j","k","l","m","n","o","p","q","r",
   "s","t","u","v","w","x","y","z","A","B","C","D","E","F","G","H","I","J",
   "K","L","M","N","O","P","Q","R","S","T","U","V","W","X","Y","Z","0","1",
   "2","3","4","5","6","7","8","9"}

\* basename of DEFAULT_TODOS_FILE, without ".json"
DefaultShard == <<"d","e","f","a","u","l","t">>

sanitizedProjectAsIs(project) == project

\* `${project.replace(/[^a-zA-Z0-9]/g, '-')}` : the file a project is stored in
sanitizedProject(project) ==
  [i \in 1..Len(project) |-> IF project[i] \in AlNum THEN project[i] ELSE "-"]

\* JavaScript truthiness of an optional string
Truthy(v) == v # undefined /\ v # <<>>

filePathOfNamed(todoData) ==
  sanitizedProject(IF Truthy(todoData.project) THEN todoData.project
                   ELSE <<"p", "!">>)

\* the file createTodo picks for todoData
filePathOf(todoData) ==
  IF Truthy(todoData.project) THEN sanitizedProject(todoData.project)
  ELSE DefaultShard

\* project names the callers use
ProjectNames == { <<"p","!">>, <<"p","_">>, DefaultShard }

\* every file of TODOS_DIR the calls can name
FileNames == {DefaultShard} \cup {sanitizedProject(p) : p \in ProjectNames}

\* the keys of a task that may hold undefined
OptionalKeys == {"project", "conversation"}

\* the fields a caller of createTask and updateTask can set
CallerKeys == {"content", "status", "priority", "project", "conversation"}

\* obj[k] of a JavaScript object: undefined when the key is missing
Get(obj, k) == IF k \in DOMAIN obj THEN obj[k] ELSE undefined

\* { ...a, ...b }
Spread(a, b) == b @@ a

\* obj[k] === undefined, for a key obj has; only the optional keys of the
\* model's objects ever hold undefined
IsUndefined(obj, k) == k \in OptionalKeys /\ obj[k] = undefined

\* JSON.parse(JSON.stringify(obj)): keys holding undefined are not serialized
JSONRoundTrip(obj) ==
  [k \in {x \in DOMAIN obj : ~IsUndefined(obj, x)} |-> obj[k]]

JSONRoundTripAll(todos) == [i \in 1..Len(todos) |-> JSONRoundTrip(todos[i])]

\* ------------------------------------------------------------- file system
\* A file of TODOS_DIR.  kind "absent": no such file; "empty": zero bytes
\* (just truncated); "json": the serialization of recs; "garbage": bytes that
\* JSON.parse rejects.  size orders the byte lengths: 0 for no bytes, 1 for
\* "[]", 1 + n for an array of n tasks.  kind "denied": a file whose mode
\* bits let the process neither read nor write it.
NoFile == [kind |-> "absent", recs |-> <<>>, size |-> 0]
EmptyFile == [kind |-> "empty", recs |-> <<>>, size |-> 0]
JsonFile(todos) == [kind |-> "json", recs |-> todos, size |-> 1 + Len(todos)]
GarbageFile(n) == [kind |-> "garbage", recs |-> <<>>, size |-> n]
DeniedFile == [kind |-> "denied", recs |-> <<>>, size |-> 1]

readTodosFileMissing(file) == <<>>

\* readTodosFile: [] for a missing file, for one fs.readFile cannot read and
\* for one JSON.parse rejects
readTodosFile(file) == IF file.kind = "json" THEN file.recs ELSE <<>>

\* the open(path, 'w') that fs.writeFile starts with: create or truncate
OpenForWriteUnlinked(file) == NoFile

OpenForWrite(file) == EmptyFile

WriteBytesLast(file, todos) ==
  {JsonFile(JSONRoundTripAll(IF todos = <<>> THEN <<>>
                             ELSE <<todos[Len(todos)]>>))}

\* the write of fs.writeFile: the bytes of `todos` go to offset 0 of whatever
\* the file holds by then.  They replace it when the file is empty or not
\* longer than the new bytes; a longer content keeps its tail behind the new
\* bytes and no longer parses.  Contents of equal array length may be of
\* either byte length.
WriteBytes(file, todos) ==
  LET new == JsonFile(JSONRoundTripAll(todos)) IN
  IF file.size = 0 \/ file.size < new.size THEN {new}
  ELSE IF file.size > new.size THEN {GarbageFile(file.size)}
  ELSE IF file = new THEN {new}
  ELSE {new, GarbageFile(file.size)}

ListingsDefaultOnly(fs) ==
  IF fs[DefaultShard].kind # "absent" THEN {<<DefaultShard>>} ELSE {<<>>}

\* getTodoFiles: the names readdir returns, in one of the orders it may use
Listings(fs) ==
  LET present == {f \in FileNames : fs[f].kind # "absent"} IN
  {ls \in UNION {[1..n -> present] : n \in {Cardinality(present)}} :
     \A i, j \in DOMAIN ls : i # j => ls[i] # ls[j]}

\* ------------------------------------------------------------------ state
VARIABLES
  files,        \* TODOS_DIR: file name -> file
  initw,        \* the un-awaited fs.writeFile of the constructor
  proc,         \* the tool calls in flight, one slot each
  now,          \* last reading of the system clock
  drawn,        \* history: how often generateUUID returned each id
  returned,     \* history: the records createTask calls returned, in order
  home,         \* history: the file the create of each id wrote to
  hardDeleted,  \* history: ids some deleteTask(id, true) reported deleted
  touched,      \* history: ids some updateTask or deleteTask found
  last,         \* history: id -> the record its latest finished mutation left
  ops,          \* history: number of tool calls made
  mode,         \* how calls overlap; fixed by the initial state
  server        \* the MCP server: the tools registered, and whether it serves

vars == <<files, initw, proc, now, drawn, returned, home, hardDeleted,
          touched, last, ops, mode, server>>

Idle ==
  [op |-> "idle", pc |-> "idle", id |-> UnknownId, hard |-> FALSE, args |-> <<>>,
   ls |-> <<>>, path |-> <<>>, todos |-> <<>>, index |-> 0, old |-> <<>>,
   res |-> <<>>, wasDeleted |-> FALSE, listed |-> <<>>, outcome |-> "none",
   error |-> "none", call |-> <<>>]

\* ----------------------------------------------------------------- inputs
\* the arguments of createTask as the caller sends them
CreateInputs ==
  IF mode \in {"seq", "collide"} THEN
    { [content |-> <<"a">>],
      [content |-> <<"b">>, status |-> "completed", priority |-> "high",
       conversation |-> <<"c">>, id |-> UnknownId,
       createdAt |-> MaxClock + 1, updatedAt |-> MaxClock + 1],
      [content |-> <<"a">>, project |-> <<"p","!">>],
      [content |-> <<"a","B">>, project |-> <<"p","_">>,
       status |-> "in_progress"],
      [content |-> <<"a">>, project |-> <<>>],
      [content |-> <<"a">>, project |-> DefaultShard],
      [content |-> <<>>] }
  ELSE
    { [content |-> <<"a">>],
      [content |-> <<"b">>, project |-> <<"p","!">>] }

\* the arguments of updateTask, without the id
UpdateInputs ==
  IF mode \in {"seq", "collide"} THEN
    { <<>>,
      [status |-> "completed"],
      [content |-> <<>>, priority |-> "low", conversation |-> undefined],
      [project |-> <<"p","!">>, status |-> "in_progress"],
      [status |-> "pending", conversation |-> <<"c">>,
       createdAt |-> MaxClock],
      [status |-> "cancelled"] }
  ELSE
    { [status |-> "completed"],
      [content |-> <<"b">>] }

\* the arguments of filterTasks
FilterInputs ==
  IF mode \in {"seq", "collide"} THEN
    { <<>>,
      [status |-> "pending"],
      [priority |-> "high", keyword |-> <<"B">>],
      [project |-> <<"p","!">>],
      [project |-> <<>>],
      [conversation |-> <<"c">>],
      [keyword |-> <<"A","b">>] }
  ELSE
    { [keyword |-> <<"B">>] }

\* the modes in which the transport hands over one call at a time
OneAtATime == {"seq", "collide", "fault", "fresh"}

OpsLimit == IF mode \in OneAtATime THEN MaxOpsSeq ELSE MaxOpsConc

\* does this file-system call fail (EIO, ENOSPC, EMFILE)?  Only mode "fault"
\* has such failures.
IOFails == IF mode = "fault" THEN {FALSE, TRUE} ELSE {FALSE}

\* new Date(): the clock never runs backwards
ClockReadings(t) == {u \in {t, t + 1} : u <= MaxClock}

\* generateUUID.  Sixteen-valued random digits, with no look at the ids in
\* use.  With an ideal random source no value comes twice; mode "collide"
\* drops that assumption.
generateUUID ==
  IF mode = "collide" THEN Ids ELSE {i \in Ids : drawn[i] = 0}

findIndexFirst(todos, id) == IF todos = <<>> THEN 0 ELSE 1

\* todos.findIndex(todo => todo.id === id), 0 for JavaScript's -1
findIndex(todos, id) ==
  IF \E i \in 1..Len(todos) : todos[i].id = id
  THEN CHOOSE i \in 1..Len(todos) :
         todos[i].id = id /\ \A j \in 1..(i - 1) : todos[j].id # id
  ELSE 0

spliceNone(todos, index) == todos

spliceToEnd(todos, index) == SubSeq(todos, 1, index - 1)

\* todos.splice(index, 1)
splice(todos, index) ==
  [i \in 1..(Len(todos) - 1) |-> IF i < index THEN todos[i] ELSE todos[i + 1]]

\* the file a mutating call in flight is about to write, <<>> if none
Target(q) ==
  IF proc[q].pc \in {"idle", "done"} THEN <<>>
  ELSE IF proc[q].op = "createTask" THEN proc[q].path
  ELSE IF proc[q].op \in {"updateTask", "deleteTask"} /\ proc[q].id \in Ids
       THEN home[proc[q].id]
  ELSE <<>>

\* may slot p start a call now?  shard: the file a mutating call would write.
\* A call takes the first free slot: the slots are alike.
MayCall(p, shard) ==
  /\ server.started
  /\ proc[p].op = "idle"
  /\ \A q \in 1..(p - 1) : proc[q].op # "idle"
  /\ ops < OpsLimit
  /\ mode \in OneAtATime => \A q \in Procs : proc[q].op = "idle"
  /\ mode \in OneAtATime \ {"fresh"} => initw = "done"
  /\ mode = "serial" /\ shard # <<>> =>
       \A q \in Procs : Target(q) # shard

\* ------------------------------------------------------------ constructor
\* no call has been made
InitHistory ==
  /\ proc = [p \in Procs |-> Idle]
  /\ now = 0
  /\ drawn = [i \in Ids |-> 0]
  /\ returned = <<>>
  /\ home = [i \in Ids |-> <<>>]
  /\ hardDeleted = {}
  /\ touched = {}
  /\ last = [i \in Ids |-> <<>>]
  /\ ops = 0
  /\ server = [tools |-> <<>>, started |-> FALSE]

\* state after `new TodoStore()` on a machine without ~/.claude/todos: the
\* directories exist, default.json does not, its writeFile has been started
InitCommon ==
  /\ files = [f \in FileNames |-> NoFile]
  /\ initw = "open"
  /\ InitHistory

\* The specifications differ in how the transport lets calls overlap:
\*   "conc"     any MaxProcs calls overlap, also with the constructor's write;
\*   "serial"   as "conc", but at most one mutating call per shard in flight;
\*   "seq"      one call at a time, the first one after the constructor's
\*              write has finished;
\*   "collide"  as "seq", with generateUUID free to repeat a value;
\*   "fresh"    one call at a time, the first one as soon as the constructor
\*              has returned: its write may still be under way;
\*   "fault"    as "seq", on a machine where TODOS_DIR holds one file that
\*              cannot be parsed or cannot be opened, and where calls of the
\*              file system can fail.
Init == InitCommon /\ mode = "conc"
InitSeq == InitCommon /\ mode = "seq"
InitSerial == InitCommon /\ mode = "serial"
InitCollide == InitCommon /\ mode = "collide"
InitFresh == InitCommon /\ mode = "fresh"

\* a file of TODOS_DIR that does not hold a JSON text
BadFiles == {GarbageFile(1), DeniedFile}

\* state after `new TodoStore()` with one bad file in TODOS_DIR: default.json
\* is written only when it does not exist
InitFault ==
  /\ mode = "fault"
  /\ \E f \in FileNames, bad \in BadFiles :
       files = [g \in FileNames |-> IF g = f THEN bad ELSE NoFile]
  /\ initw = IF files[DefaultShard].kind = "absent" THEN "open" ELSE "done"
  /\ InitHistory

\* ------------------------------------------------------------- initServer
toolNamesTwice ==
  <<"getAllTasks", "getTask", "createTask", "updateTask", "deleteTask",
    "filterTasks", "getTask">>

\* the names initServer passes to server.tool, in the order of the calls
toolNames ==
  <<"getAllTasks", "getTask", "createTask", "updateTask", "deleteTask",
    "filterTasks">>

\* server.tool(name, schema, handler), once for each name of a sequence
RECURSIVE tool(_, _)
tool(registered, names) ==
  IF names = <<>> THEN registered
  ELSE tool(Append(registered, Head(names)), Tail(names))

\* initServer: it registers the tools and starts the transport in one turn
\* of the event loop, right after the constructor has returned
InitServer ==
  /\ ~server.started
  /\ server' = [tools |-> tool(server.tools, toolNames), started |-> TRUE]
  /\ UNCHANGED <<files, initw, proc, now, drawn, returned, home, hardDeleted, touched, last, ops, mode>>

\* the transport hands a call to the handler registered under its name
Registered(name) == \E i \in 1..Len(server.tools) : server.tools[i] = name

\* ------------------------------------------------------------ constructor
\* fs.writeFile(DEFAULT_TODOS_FILE, '[]', 'utf8'), first half
InitOpen ==
  /\ initw = "open"
  /\ files' = [files EXCEPT ![DefaultShard] = OpenForWrite(@)]
  /\ initw' = "write"
  /\ UNCHANGED <<proc, now, drawn, returned, home, hardDeleted, touched, last, ops, mode, server>>

\* fs.writeFile(DEFAULT_TODOS_FILE, '[]', 'utf8'), second half
InitWrite ==
  /\ initw = "write"
  /\ \E f \in WriteBytes(files[DefaultShard], <<>>) :
       files' = [files EXCEPT ![DefaultShard] = f]
  /\ initw' = "done"
  /\ UNCHANGED <<proc, now, drawn, returned, home, hardDeleted, touched, last, ops, mode, server>>

\* ---------------------------------------------------------- tool handlers
handlerRethrow(c, error) ==
  [c EXCEPT !.pc = "done", !.ls = <<>>, !.res = <<>>,
            !.outcome = "exception", !.error = error]

\* the `catch (error)` of a tool handler: the call answers
\* {success: false, error: 'Failed to ...', message: error.message}
handlerCatch(c, error) ==
  [c EXCEPT !.pc = "done", !.ls = <<>>, !.res = <<>>,
            !.outcome = "failed", !.error = error]

\* the answer {success: false, error: 'Task not found', id} that getTask,
\* updateTask and deleteTask give when the store returns null
taskNotFound(c) ==
  [c EXCEPT !.pc = "done", !.ls = <<>>, !.outcome = "notFound"]

\* -------------------------------------------------------------- createTask
WithDefaultsOver(args) ==
  [status |-> "pending", priority |-> "medium"] @@ args

\* schema defaults of the createTask tool
WithDefaults(args) ==
  args @@ [status |-> "pending", priority |-> "medium"]

\* the todoData object the createTask handler builds
todoDataOf(args) ==
  [k \in CallerKeys |-> Get(WithDefaults(args), k)]

\* createTodo up to the write: pick the file, read it, build and push newTodo
CreateTask(p) ==
  \E args \in CreateInputs, id \in generateUUID, t1 \in ClockReadings(now) :
  \E t2 \in ClockReadings(t1) :
    LET todoData == todoDataOf(args)
        filePath == filePathOf(todoData)
        todos == readTodosFile(files[filePath])
        newTodo == Spread([id |-> id, createdAt |-> t1, updatedAt |-> t2], todoData)
    IN
    /\ Registered("createTask")
    /\ MayCall(p, filePath)
    /\ Len(returned) + Cardinality({q \in Procs : proc[q].op = "createTask"
                                                  /\ proc[q].pc # "done"}) < MaxCreates
    /\ proc' = [proc EXCEPT ![p] =
         [Idle EXCEPT !.op = "createTask", !.pc = "open", !.id = id,
                      !.args = args, !.path = filePath,
                      !.todos = Append(todos, newTodo),
                      !.res = <<JSONRoundTrip(newTodo)>>]]
    /\ now' = t2
    /\ drawn' = [drawn EXCEPT ![id] = @ + 1]
    /\ home' = [home EXCEPT ![id] = filePath]
    /\ ops' = ops + 1
    /\ UNCHANGED <<files, initw, returned, hardDeleted, touched, last, mode, server>>

\* ------------------------------------------------------------- shard write
\* writeTodosFile, first half: fs.writeFile opens the file, truncating it
\* An open that fails changes nothing; writeTodosFile rethrows the error.
WriteOpen(p) ==
  /\ proc[p].pc = "open"
  /\ \E fails \in IOFails :
       IF fails \/ files[proc[p].path].kind = "denied"
       THEN /\ files' = files
            /\ proc' = [proc EXCEPT ![p] = handlerCatch(@, "open")]
       ELSE /\ files' = [files EXCEPT ![proc[p].path] = OpenForWrite(@)]
            /\ proc' = [proc EXCEPT ![p].pc = "write"]
  /\ UNCHANGED <<initw, now, drawn, returned, home, hardDeleted, touched, last, ops, mode, server>>

\* writeTodosFile, second half: the bytes are written and the call returns
\* A write that fails leaves the file as the open left it.
WriteData(p) ==
  /\ proc[p].pc = "write"
  /\ \E fails \in IOFails :
       IF fails
       THEN /\ files' = files
            /\ proc' = [proc EXCEPT ![p] = handlerCatch(@, "write")]
            /\ UNCHANGED <<returned, hardDeleted, last>>
       ELSE /\ \E f \in WriteBytes(files[proc[p].path], proc[p].todos) :
                 files' = [files EXCEPT ![proc[p].path] = f]
            /\ proc' = [proc EXCEPT ![p].pc = "done", ![p].outcome = "success"]
            /\ returned' = IF proc[p].op = "createTask"
                           THEN Append(returned, proc[p].res[1]) ELSE returned
            /\ hardDeleted' = IF proc[p].op = "deleteTask" /\ proc[p].hard
                              THEN hardDeleted \cup {proc[p].id}
                              ELSE hardDeleted
            /\ last' = [last EXCEPT ![proc[p].id] =
                          IF proc[p].op = "deleteTask" /\ proc[p].hard
                          THEN <<>>
                          ELSE <<[rec |-> proc[p].res[1], op |-> proc[p].op]>>]
  /\ UNCHANGED <<initw, now, drawn, home, touched, ops, mode, server>>

\* the tool handler hands its result to the transport
Return(p) ==
  /\ proc[p].pc = "done"
  /\ proc' = [proc EXCEPT ![p] = Idle]
  /\ UNCHANGED <<files, initw, now, drawn, returned, home, hardDeleted, touched, last, ops, mode, server>>

\* ------------------------------------------------- getTask/update/delete
\* the ids a caller can pass: those createTask has returned, or an unknown one
KnownIds == {returned[i].id : i \in 1..Len(returned)} \cup {UnknownId}

\* handler and store method up to `await this.getTodoFiles()`
StartScan(p, op, id, call, args, hard) ==
  /\ Registered(op)
  /\ MayCall(p, IF op = "getTask" \/ id = UnknownId THEN <<>> ELSE home[id])
  /\ \E ls \in Listings(files), fails \in IOFails :
       LET c == [Idle EXCEPT !.op = op, !.id = id, !.call = call,
                             !.args = args,
                             !.hard = hard, !.wasDeleted = id \in hardDeleted]
       IN proc' = [proc EXCEPT ![p] =
            IF fails THEN handlerCatch(c, "readdir")
            ELSE IF ls = <<>> THEN taskNotFound(c)
            ELSE [c EXCEPT !.pc = "scan", !.ls = ls]]
  /\ ops' = ops + 1
  /\ UNCHANGED <<files, initw, now, drawn, returned, home, hardDeleted, touched, last, mode, server>>

\* getTask handler, getTodoById
GetTask(p) == \E id \in KnownIds : StartScan(p, "getTask", id, <<>>, <<>>, FALSE)

updatesOfTruthy(args) ==
  [k \in {x \in DOMAIN args \cap CallerKeys :
            /\ ~IsUndefined(args, x)
            /\ ~(x \in {"content", "project", "conversation"}
                 /\ args[x] = <<>>)} |-> args[k]]

updatesOfUnfiltered(args) == args

\* the `updates` object of the updateTask handler: the five fields it takes
\* from the call, without those that are undefined
updatesOf(args) ==
  [k \in {x \in DOMAIN args \cap CallerKeys : ~IsUndefined(args, x)} |-> args[k]]

\* updateTask handler
UpdateTask(p) ==
  \E id \in KnownIds, args \in UpdateInputs :
    StartScan(p, "updateTask", id, args, updatesOf(args), FALSE)

\* the arguments of deleteTask, without the id
DeleteInputs == {<<>>, [hardDelete |-> FALSE], [hardDelete |-> TRUE]}

\* deleteTask handler; an omitted hardDelete is false
DeleteTask(p) ==
  \E id \in KnownIds, args \in DeleteInputs :
    StartScan(p, "deleteTask", id, args, args,
              IF "hardDelete" \in DOMAIN args THEN args.hardDelete ELSE FALSE)

updatedTodoLegal(todo, updates, t) ==
  IF "status" \in DOMAIN updates /\ todo.status \in {"completed", "cancelled"}
  THEN Spread(Spread(todo, updates),
              [updatedAt |-> t, status |-> todo.status])
  ELSE Spread(Spread(todo, updates), [updatedAt |-> t])

updatedTodoUnderneath(todo, updates, t) ==
  Spread(Spread(updates, todo), [updatedAt |-> t])

\* { ...todos[index], ...updates, updatedAt: new Date().toISOString() }
updatedTodo(todo, updates, t) ==
  Spread(Spread(todo, updates), [updatedAt |-> t])

cancelledTodoStale(todo, t) == [status |-> "cancelled"] @@ todo

cancelledTodoBare(todo, t) ==
  [id |-> todo.id, status |-> "cancelled", updatedAt |-> t]

\* todos[index].status = 'cancelled'; todos[index].updatedAt = ...
cancelledTodo(todo, t) ==
  [status |-> "cancelled", updatedAt |-> t] @@ todo

insertAt(todos, index, todo) ==
  [i \in 1..(Len(todos) + 1) |->
     IF i < index THEN todos[i] ELSE IF i = index THEN todo ELSE todos[i - 1]]

\* todos[index] = todo
replaceAt(todos, index, todo) == [todos EXCEPT ![index] = todo]

updatePathByProject(file, todo) ==
  IF "project" \in DOMAIN todo /\ Truthy(todo.project)
  THEN sanitizedProject(todo.project) ELSE DefaultShard

\* the file updateTodo writes back: the one the loop found the id in
updatePath(file, todo) == file

OnFoundWritingBack(p, file, todos, index, t) ==
  [proc[p] EXCEPT !.pc = "open", !.ls = <<>>, !.path = file, !.index = index,
                  !.old = <<todos[index]>>, !.todos = todos,
                  !.res = <<todos[index]>>]

\* what a scanning call does with the file it has just read, at `index`
OnFound(p, file, todos, index, t) ==
  LET c == proc[p] IN
  IF c.op = "getTask" THEN
    [c EXCEPT !.pc = "done", !.ls = <<>>, !.res = <<todos[index]>>,
              !.outcome = "success"]
  ELSE IF c.op = "updateTask" THEN
    LET u == updatedTodo(todos[index], c.args, t) IN
    [c EXCEPT !.pc = "open", !.ls = <<>>, !.path = updatePath(file, u),
              !.index = index, !.old = <<todos[index]>>,
              !.todos = replaceAt(todos, index, u),
              !.res = <<JSONRoundTrip(u)>>]
  ELSE IF c.hard THEN
    [c EXCEPT !.pc = "open", !.ls = <<>>, !.path = file, !.index = index,
              !.old = <<todos[index]>>,
              !.todos = splice(todos, index),
              !.res = <<[id |-> c.id, deleted |-> TRUE]>>]
  ELSE
    LET d == cancelledTodo(todos[index], t) IN
    [c EXCEPT !.pc = "open", !.ls = <<>>, !.path = file, !.index = index,
              !.old = <<todos[index]>>,
              !.todos = replaceAt(todos, index, d),
              !.res = <<JSONRoundTrip(d)>>]

\* one turn of the `for (const file of files)` loop: read the file, look for
\* the id, act on it or go on to the next file; null after the last file
ScanFile(p) ==
  /\ proc[p].pc = "scan"
  /\ LET file == Head(proc[p].ls)
         todos == readTodosFile(files[file])
         index == findIndex(todos, proc[p].id)
         found == index # 0
         stamps == found /\ (proc[p].op = "updateTask"
                             \/ (proc[p].op = "deleteTask" /\ ~proc[p].hard))
     IN
     \E t \in IF stamps THEN ClockReadings(now) ELSE {now} :
       /\ proc' = [proc EXCEPT ![p] =
            IF found THEN OnFound(p, file, todos, index, t)
            ELSE IF Len(proc[p].ls) = 1 THEN taskNotFound(proc[p])
            ELSE [proc[p] EXCEPT !.ls = Tail(@)]]
       /\ now' = t
       /\ touched' = IF found /\ proc[p].op # "getTask"
                     THEN touched \cup {proc[p].id} ELSE touched
  /\ UNCHANGED <<files, initw, drawn, returned, home, hardDeleted, last, ops, mode, server>>

\* ------------------------------------------------ getAllTasks, filterTasks
UpperCase ==
  <<"A","B","C","D","E","F","G","H","I","J","K","L","M",
    "N","O","P","Q","R","S","T","U","V","W","X","Y","Z">>
LowerCase ==
  <<"a","b","c","d","e","f","g","h","i","j","k","l","m",
    "n","o","p","q","r","s","t","u","v","w","x","y","z">>

\* String.prototype.toLowerCase
toLowerCase(str) ==
  [i \in 1..Len(str) |->
     IF \E n \in 1..Len(UpperCase) : UpperCase[n] = str[i]
     THEN LowerCase[CHOOSE n \in 1..Len(UpperCase) : UpperCase[n] = str[i]]
     ELSE str[i]]

\* String.prototype.includes
includes(str, part) ==
  \E i \in 0..(Len(str) - Len(part)) : SubSeq(str, i + 1, i + Len(part)) = part

\* the criteria filterTasks takes
FilterKeys == {"status", "priority", "project", "conversation", "keyword"}

\* the `filters` object of the filterTasks handler; a key the call left out
\* holds undefined there and is no key here
filtersOf(args) == [k \in DOMAIN args \cap FilterKeys |-> args[k]]

\* `filters.k &&`: the key holds a value that JavaScript takes for true.  The
\* enumerated values of status and priority are non-empty strings.
IsSet(filters, k) ==
  /\ k \in DOMAIN filters
  /\ k \in {"status", "priority"} \/ Truthy(filters[k])

\* the callback of allTodos.filter in filterTodos
passes(todo, filters) ==
  /\ ~(IsSet(filters, "status") /\ todo.status # filters.status)
  /\ ~(IsSet(filters, "priority") /\ todo.priority # filters.priority)
  /\ ~(IsSet(filters, "project") /\ Get(todo, "project") # filters.project)
  /\ ~(IsSet(filters, "conversation")
         /\ Get(todo, "conversation") # filters.conversation)
  /\ ~(IsSet(filters, "keyword")
         /\ ~includes(toLowerCase(todo.content), toLowerCase(filters.keyword)))

\* allTodos.filter(...) of filterTodos
RECURSIVE filterTodos(_, _)
filterTodos(allTodos, filters) ==
  IF allTodos = <<>> THEN <<>>
  ELSE (IF passes(Head(allTodos), filters) THEN <<Head(allTodos)>> ELSE <<>>)
       \o filterTodos(Tail(allTodos), filters)

pushAllOver(allTodos, todos) == todos

\* allTodos.push(...todos)
pushAll(allTodos, todos) == allTodos \o todos

\* getAllTodos has read the last file: the handler answers with the tasks,
\* filterTasks with those that pass the filters
collected(c, allTodos) ==
  [c EXCEPT !.pc = "done", !.ls = <<>>, !.todos = allTodos,
            !.res = <<IF c.op = "filterTasks" THEN filterTodos(allTodos, c.args)
                      ELSE allTodos>>,
            !.outcome = "success"]

\* handler and getAllTodos up to `await this.getTodoFiles()`
StartCollect(p, op, args) ==
  /\ Registered(op)
  /\ MayCall(p, <<>>)
  /\ \E ls \in Listings(files), fails \in IOFails :
       LET c == [Idle EXCEPT !.op = op, !.args = args] IN
       proc' = [proc EXCEPT ![p] =
         IF fails THEN handlerCatch(c, "readdir")
         ELSE IF ls = <<>> THEN collected(c, <<>>)
         ELSE [c EXCEPT !.pc = "collect", !.ls = ls, !.listed = ls]]
  /\ ops' = ops + 1
  /\ UNCHANGED <<files, initw, now, drawn, returned, home, hardDeleted, touched, last, mode, server>>

\* getAllTasks handler
GetAllTasks(p) == StartCollect(p, "getAllTasks", <<>>)

\* filterTasks handler
FilterTasks(p) ==
  \E args \in FilterInputs : StartCollect(p, "filterTasks", filtersOf(args))

\* one turn of the loop of getAllTodos: read the file, push its tasks
CollectFile(p) ==
  /\ proc[p].pc = "collect"
  /\ LET allTodos == pushAll(proc[p].todos,
                             readTodosFile(files[Head(proc[p].ls)]))
     IN proc' = [proc EXCEPT ![p] =
          IF Len(proc[p].ls) = 1 THEN collected(proc[p], allTodos)
          ELSE [proc[p] EXCEPT !.ls = Tail(@), !.todos = allTodos]]
  /\ UNCHANGED <<files, initw, now, drawn, returned, home, hardDeleted, touched, last, ops, mode, server>>

Next ==
  \/ InitServer
  \/ InitOpen
  \/ InitWrite
  \/ \E p \in Procs : CreateTask(p)
  \/ \E p \in Procs : GetTask(p)
  \/ \E p \in Procs : UpdateTask(p)
  \/ \E p \in Procs : DeleteTask(p)
  \/ \E p \in Procs : ScanFile(p)
  \/ \E p \in Procs : GetAllTasks(p)
  \/ \E p \in Procs : FilterTasks(p)
  \/ \E p \in Procs : CollectFile(p)
  \/ \E p \in Procs : WriteOpen(p)
  \/ \E p \in Procs : WriteData(p)
  \/ \E p \in Procs : Return(p)

Spec == Init /\ [][Next]_vars
SpecSeq == InitSeq /\ [][Next]_vars
SpecSerial == InitSerial /\ [][Next]_vars
SpecCollide == InitCollide /\ [][Next]_vars
SpecFresh == InitFresh /\ [][Next]_vars
SpecFault == InitFault /\ [][Next]_vars

\* ================================================================ claims
AllKeys ==
  {"id", "content", "status", "priority", "project", "conversation",
   "createdAt", "updatedAt"}

\* a[k] and b[k] are the same value, or both missing
SameField(a, b, k) ==
  /\ (k \in DOMAIN a) = (k \in DOMAIN b)
  /\ k \in DOMAIN a => a[k] = b[k]

\* the places of the store that hold a record: <<file, index>>
StoredAt == UNION {{<<f, i>> : i \in 1..Len(files[f].recs)} : f \in FileNames}
RecordAt(x) == files[x[1]].recs[x[2]]
StoredCopies(id) == {x \in StoredAt : RecordAt(x).id = id}
ReturnedCopies(id) == {i \in 1..Len(returned) : returned[i].id = id}
ReturnedIds == {returned[i].id : i \in 1..Len(returned)}
ReturnedRecord(id) == returned[CHOOSE i \in 1..Len(returned) : returned[i].id = id]

\* ---------------------------------------------------------------------- C1
\* C1 as stated: no two records returned by createTask share an id, and no
\* two records held anywhere in the store, across all shards, share an id.
C1_UniqueIds ==
  /\ \A id \in Ids : Cardinality(StoredCopies(id)) <= 1
  /\ \A id \in Ids : Cardinality(ReturnedCopies(id)) <= 1

\* C1 amended: an id that generateUUID has returned n times is held by at most
\* n records across all shards and carried by at most n records that
\* createTask returned; so ids are unique across the store as long as
\* generateUUID has not repeated a value.
C1_NoMoreCopiesThanDraws ==
  \A id \in Ids :
    /\ Cardinality(StoredCopies(id)) <= drawn[id]
    /\ Cardinality(ReturnedCopies(id)) <= drawn[id]

\* two creates drew the same id and both records are stored, in two shards
C1_Witness ==
  \E id \in Ids :
    /\ drawn[id] = 2
    /\ Cardinality(ReturnedCopies(id)) = 2
    /\ \E x, y \in StoredCopies(id) : x[1] # y[1]

\* ---------------------------------------------------------------------- C2
\* C2: a getTask(id) made after createTask returned record r, with no update
\* or delete of r in between, returns a record with the content, status,
\* priority, project and conversation of r.
C2_RoundTrip ==
  \A p \in Procs :
    (/\ proc[p].op = "getTask"
     /\ proc[p].pc = "done"
     /\ proc[p].id \in ReturnedIds \ touched)
    => /\ proc[p].res # <<>>
       /\ \A k \in CallerKeys :
            SameField(proc[p].res[1], ReturnedRecord(proc[p].id), k)

\* a getTask has returned the untouched record of a project shard
C2_Witness ==
  \E p \in Procs :
    /\ proc[p].op = "getTask"
    /\ proc[p].pc = "done"
    /\ proc[p].id \in ReturnedIds \ touched
    /\ proc[p].res # <<>>
    /\ "project" \in DOMAIN proc[p].res[1]
    /\ home[proc[p].id] # DefaultShard

\* ---------------------------------------------------------------------- C3
\* C3: once deleteTask(id, true) has returned {id, deleted: true}, every later
\* getTask, updateTask and deleteTask of that id returns not-found, and no
\* shard holds a record with that id.
C3_HardDeleteFinal ==
  /\ \A p \in Procs :
       proc[p].pc = "done" /\ proc[p].wasDeleted => proc[p].res = <<>>
  /\ \A id \in hardDeleted : StoredCopies(id) = {}

\* a getTask of a hard-deleted id has returned
C3_Witness ==
  \E p \in Procs :
    /\ proc[p].op = "getTask"
    /\ proc[p].pc = "done"
    /\ proc[p].wasDeleted

\* ---------------------------------------------------------------------- C4
\* C4: a soft deleteTask of an existing record keeps the record in its shard
\* at its position, sets its status to cancelled, changes no field but status
\* and updatedAt, and returns the stored record; a getTask that follows
\* returns that record.
C4_SoftDelete ==
  \A p \in Procs :
    /\ (/\ proc[p].op = "deleteTask"
        /\ ~proc[p].hard
        /\ proc[p].pc = "done"
        /\ proc[p].old # <<>>)
       => LET file == files[proc[p].path]
              i == proc[p].index
          IN /\ file.kind = "json"
             /\ proc[p].path = home[proc[p].id]
             /\ Len(file.recs) = Len(proc[p].todos)
             /\ file.recs[i].id = proc[p].id
             /\ file.recs[i].status = "cancelled"
             /\ proc[p].res = <<file.recs[i]>>
             /\ \A k \in AllKeys \ {"status", "updatedAt"} :
                  SameField(file.recs[i], proc[p].old[1], k)
    /\ (/\ proc[p].op = "getTask"
        /\ proc[p].pc = "done"
        /\ proc[p].id \in Ids
        /\ last[proc[p].id] # <<>>
        /\ last[proc[p].id][1].op = "deleteTask")
       => /\ proc[p].res = <<last[proc[p].id][1].rec>>
          /\ proc[p].res[1].status = "cancelled"

\* a getTask has returned a record that a deleteTask without hardDelete
\* cancelled, and the record was not cancelled before
C4_Witness ==
  \E p \in Procs :
    /\ proc[p].op = "getTask"
    /\ proc[p].pc = "done"
    /\ proc[p].id \in Ids
    /\ last[proc[p].id] # <<>>
    /\ last[proc[p].id][1].op = "deleteTask"
    /\ proc[p].res # <<>>
    /\ ReturnedRecord(proc[p].id).status # "cancelled"

\* ---------------------------------------------------------------------- C5
\* C5: updateTask(id, p) on an existing record sets the fields present in p,
\* refreshes updatedAt, keeps every other field, and returns the record that
\* is stored afterwards.
C5_PartialUpdateMerge ==
  \A p \in Procs :
    (/\ proc[p].op = "updateTask"
     /\ proc[p].pc = "done"
     /\ proc[p].old # <<>>)
    => LET file == files[proc[p].path]
           i == proc[p].index
       IN /\ file.kind = "json"
          /\ Len(file.recs) = Len(proc[p].todos)
          /\ \A k \in DOMAIN proc[p].args :
               k \in DOMAIN file.recs[i] /\ file.recs[i][k] = proc[p].args[k]
          /\ \A k \in AllKeys \ (DOMAIN proc[p].args \cup {"updatedAt"}) :
               SameField(file.recs[i], proc[p].old[1], k)
          /\ proc[p].res = <<file.recs[i]>>

\* updateTask(id, {status: 'completed'}) has returned for a record that was
\* not completed, at a later clock reading than the record's last change
C5_Witness ==
  \E p \in Procs :
    /\ proc[p].op = "updateTask"
    /\ proc[p].pc = "done"
    /\ proc[p].old # <<>>
    /\ proc[p].args = [status |-> "completed"]
    /\ proc[p].old[1].status # "completed"
    /\ proc[p].res[1].status = "completed"
    /\ proc[p].res[1].updatedAt # proc[p].old[1].updatedAt

\* ---------------------------------------------------------------------- C6
\* C6: a shard write replaces the content of an existing shard in one step: a
\* shard that holds a complete sequence of records holds a complete sequence
\* of records in the next state too, never truncated or half-written bytes.
C6_AtomicShardWrite ==
  [][\A f \in FileNames : files[f].kind = "json" => files'[f].kind = "json"]_vars

\* ---------------------------------------------------------------------- C7
\* a createTask in slot p has returned its record
CreateDone(p) == proc[p].op = "createTask" /\ proc[p].pc = "done"

\* the shard of the create in slot q parses and holds the record of the create
\* in slot q, not that of the create in slot p, which nobody updated or deleted
OnlySecondSurvives(p, q) ==
  /\ p # q
  /\ CreateDone(p) /\ CreateDone(q)
  /\ proc[p].path = proc[q].path
  /\ proc[p].id \notin touched
  /\ files[proc[q].path].kind = "json"
  /\ \E i \in 1..Len(files[proc[q].path].recs) :
       files[proc[q].path].recs[i] = proc[q].res[1]
  /\ \A i \in 1..Len(files[proc[q].path].recs) :
       files[proc[q].path].recs[i] # proc[p].res[1]

\* C7: two creates into one shard can both return success while the shard
\* holds the record of only one of them; whenever that happens, the view the
\* surviving writer wrote back was read before the other write landed: it
\* does not hold the lost record.
C7_LostUpdateByStaleView ==
  \A p, q \in Procs :
    OnlySecondSurvives(p, q)
    => \A i \in 1..Len(proc[q].todos) : proc[q].todos[i].id # proc[p].id

\* both creates into a project shard have returned and one record is lost
C7_Witness ==
  \E p, q \in Procs :
    /\ OnlySecondSurvives(p, q)
    /\ proc[q].path # DefaultShard

\* ---------------------------------------------------------------------- C8
\* no write to file f is under way
Quiescent(f) ==
  /\ \A q \in Procs : Target(q) # f
  /\ f = DefaultShard => initw # "write"

\* C8: with at most one mutating call in flight per shard, no successful
\* mutation is lost: whenever no write to a record's shard is under way, the
\* shard holds the record as its latest successful create, update or soft
\* delete returned it, until a hard delete removes it.
C8_SerialNoLoss ==
  \A id \in Ids :
    last[id] # <<>> /\ Quiescent(home[id])
    => \E x \in StoredCopies(id) :
         x[1] = home[id] /\ RecordAt(x) = last[id][1].rec

\* ---------------------------------------------------------------------- C9
\* C9: every stored record is in the shard its create wrote it to, whatever
\* its project field says now, and no shard holds a second copy of it.
C9_ShardFixed ==
  /\ \A x \in StoredAt : x[1] = home[RecordAt(x).id]
  /\ \A id \in Ids : Cardinality(StoredCopies(id)) <= 1

\* an update has given a stored record a project that names another shard
C9_Witness ==
  \E x \in StoredAt :
    /\ RecordAt(x).id \in touched
    /\ "project" \in DOMAIN RecordAt(x)
    /\ Truthy(RecordAt(x).project)
    /\ sanitizedProject(RecordAt(x).project) # x[1]

\* --------------------------------------------------------------------- C10
\* C10: every stored record, and every record an updateTask or a soft
\* deleteTask returns, carries the id and the createdAt its createTask
\* returned, whatever fields the callers supplied; and while no write is under
\* way a record that was not hard-deleted is stored under its id.
C10_IdCreatedAtImmutable ==
  /\ \A x \in StoredAt :
       RecordAt(x).id \in ReturnedIds
       => RecordAt(x).createdAt = ReturnedRecord(RecordAt(x).id).createdAt
  /\ \A p \in Procs :
       (/\ proc[p].op \in {"updateTask", "deleteTask"}
        /\ ~proc[p].hard
        /\ proc[p].pc = "done"
        /\ proc[p].res # <<>>)
       => /\ proc[p].res[1].id = proc[p].id
          /\ proc[p].res[1].createdAt = ReturnedRecord(proc[p].id).createdAt
  /\ \A id \in Ids :
       last[id] # <<>> /\ Quiescent(home[id])
       => \E x \in StoredCopies(id) : RecordAt(x).id = last[id][1].rec.id

\* an updateTask whose caller supplied a createdAt has changed a stored record
\* that was created at another time
C10_Witness ==
  \E x \in StoredAt :
    /\ last[RecordAt(x).id] # <<>>
    /\ last[RecordAt(x).id][1].op = "updateTask"
    /\ "conversation" \in DOMAIN RecordAt(x)
    /\ "conversation" \notin DOMAIN ReturnedRecord(RecordAt(x).id)
    /\ RecordAt(x).createdAt # MaxClock
    /\ RecordAt(x).updatedAt # RecordAt(x).createdAt

\* --------------------------------------------------------------------- C11
\* what the shards named in a listing hold now, one shard after the other
RECURSIVE ShardContents(_)
ShardContents(ls) ==
  IF ls = <<>> THEN <<>>
  ELSE files[Head(ls)].recs \o ShardContents(Tail(ls))

\* record r meets every criterion that criteria holds
Satisfies(r, criteria) ==
  /\ \A k \in DOMAIN criteria \ {"keyword"} :
       k \in DOMAIN r /\ r[k] = criteria[k]
  /\ "keyword" \in DOMAIN criteria =>
       includes(toLowerCase(r.content), toLowerCase(criteria.keyword))

\* the records of a sequence that meet the criteria, in their order
RECURSIVE Matching(_, _)
Matching(rs, criteria) ==
  IF rs = <<>> THEN <<>>
  ELSE (IF Satisfies(Head(rs), criteria) THEN <<Head(rs)>> ELSE <<>>)
       \o Matching(Tail(rs), criteria)

\* C11: filterTasks(criteria) returns exactly the records of listAll() that
\* meet every criterion criteria holds (status, priority, project and
\* conversation by equality, keyword as a case-insensitive substring of
\* content), in the order of listAll(); filterTasks({}) returns listAll().
C11_FilterConjunction ==
  \A p \in Procs :
    (/\ proc[p].op = "filterTasks"
     /\ proc[p].pc = "done"
     /\ proc[p].outcome = "success")
    => proc[p].res[1] = Matching(ShardContents(proc[p].listed), proc[p].args)

\* --------------------------------------------------------------------- C12
\* shard is project with every character outside [A-Za-z0-9] replaced by '-'
IsShardOf(shard, project) ==
  /\ Len(shard) = Len(project)
  /\ \A i \in 1..Len(project) :
       shard[i] = IF project[i] \in AlNum THEN project[i] ELSE "-"

\* the argument of a createTask names a project
NamesProject(args) == "project" \in DOMAIN args /\ args.project # <<>>

\* C12: a createTask with a non-empty project p succeeds and appends its
\* record to the shard named p with every character outside [A-Za-z0-9]
\* replaced by '-'; so creates whose projects differ only in such characters
\* are stored in one shard.
C12_ShardRouting ==
  /\ \A p \in Procs :
       CreateDone(p) /\ NamesProject(proc[p].args)
       => /\ proc[p].outcome = "success"
          /\ IsShardOf(proc[p].path, proc[p].args.project)
          /\ files[proc[p].path].kind = "json"
          /\ files[proc[p].path].recs # <<>>
          /\ files[proc[p].path].recs[Len(files[proc[p].path].recs)]
               = proc[p].res[1]
  /\ \A i \in 1..Len(returned) :
       "project" \in DOMAIN returned[i] /\ returned[i].project # <<>>
       => IsShardOf(home[returned[i].id], returned[i].project)

\* one shard holds two records that two creates with different projects made
C12_Witness ==
  \E x, y \in StoredAt :
    /\ x[1] = y[1]
    /\ x[2] # y[2]
    /\ {RecordAt(x).id, RecordAt(y).id} \cap touched = {}
    /\ "project" \in DOMAIN RecordAt(x)
    /\ "project" \in DOMAIN RecordAt(y)
    /\ RecordAt(x).project # <<>>
    /\ RecordAt(y).project # <<>>
    /\ RecordAt(x).project # RecordAt(y).project
    /\ \E p \in Procs : CreateDone(p) /\ proc[p].res[1] = RecordAt(y)

\* --------------------------------------------------------------------- C13
\* the argument of a createTask has no content, or the empty string
LacksContent(args) == "content" \notin DOMAIN args \/ args.content = <<>>

\* C13: a createTask whose content is missing or the empty string fails: it
\* is answered with a failure, createTask never returns a record without
\* content, and no shard holds a record created without content.
C13_InvalidInputOnCreate ==
  /\ \A p \in Procs :
       CreateDone(p) /\ LacksContent(proc[p].args)
       => proc[p].outcome = "failed"
  /\ \A i \in 1..Len(returned) : returned[i].content # <<>>
  /\ \A x \in StoredAt :
       RecordAt(x).id \notin touched => RecordAt(x).content # <<>>

\* --------------------------------------------------------------------- C14
ById == {"getTask", "updateTask", "deleteTask"}

\* C14: every step of a getTask, updateTask or deleteTask (soft or hard) whose
\* id matches no record in any shard leaves every shard as it is, and the call
\* ends with the not-found answer, which carries no record and is no
\* exception.
C14_NotFound ==
  [][\A p \in Procs :
       (/\ proc[p].pc \in {"idle", "scan"}
        /\ proc'[p] # proc[p]
        /\ proc'[p].op \in ById
        /\ StoredCopies(proc'[p].id) = {})
       => /\ files' = files
          /\ proc'[p].pc \in {"scan", "done"}
          /\ proc'[p].pc = "done"
               => proc'[p].outcome = "notFound" /\ proc'[p].res = <<>>]_vars

\* a hard deleteTask of an id no record has was answered not-found, with
\* other records in the store
C14_Witness ==
  \E p \in Procs :
    /\ proc[p].op = "deleteTask"
    /\ proc[p].hard
    /\ proc[p].pc = "done"
    /\ proc[p].outcome = "notFound"
    /\ StoredCopies(proc[p].id) = {}
    /\ StoredAt # {}

\* --------------------------------------------------------------------- C15
\* C15: a shard whose content cannot be decoded reads as empty, without a
\* failure, in getTask, listAll and filterTasks, and no write touches it: its
\* stored bytes stay as they are.
C15_CorruptShardKept ==
  [][/\ \A f \in FileNames :
          files[f].kind = "garbage" => files'[f] = files[f]
     /\ \A p \in Procs :
          (/\ proc'[p].op \in {"getTask", "getAllTasks", "filterTasks"}
           /\ proc'[p].pc = "done"
           /\ proc'[p].error = "none")
          => proc'[p].outcome \in {"success", "notFound"}]_vars

\* --------------------------------------------------------------------- C16
\* shard f exists and cannot be read as a sequence of records
Unreadable(f) == files[f].kind \in {"garbage", "denied", "empty"}

\* the set of the elements of a sequence
Range(seq) == {seq[i] : i \in 1..Len(seq)}

\* C16: while some shard is unreadable or corrupt, a getTask, updateTask or
\* deleteTask of a record that a healthy shard holds, and that meets no other
\* failure of the file system, finds the record and succeeds: getTask returns
\* the stored record, updateTask and soft deleteTask store what they return,
\* hard deleteTask removes the record; listAll returns every stored record
\* and filterTasks every stored record that meets its criteria.
C16_FaultIsolation ==
  [][(\E f \in FileNames : Unreadable(f)) =>
     \A p \in Procs :
       /\ (/\ proc[p].pc \in {"idle", "scan"}
           /\ proc'[p] # proc[p]
           /\ proc'[p].op \in ById
           /\ proc'[p].error = "none"
           /\ StoredCopies(proc'[p].id) # {})
          => /\ proc'[p].outcome # "notFound"
             /\ proc'[p].op = "getTask" /\ proc'[p].pc = "done"
                  => \E x \in StoredCopies(proc'[p].id) :
                       proc'[p].res = <<RecordAt(x)>>
       /\ (/\ proc[p].pc = "write"
           /\ proc'[p].pc = "done"
           /\ proc'[p].error = "none")
          => /\ proc'[p].outcome = "success"
             /\ files'[proc[p].path].kind = "json"
             /\ IF proc[p].op = "deleteTask" /\ proc[p].hard
                THEN \A r \in Range(files'[proc[p].path].recs) :
                       r.id # proc[p].id
                ELSE proc'[p].res[1] \in Range(files'[proc[p].path].recs)
       /\ (/\ proc[p].pc \in {"idle", "collect"}
           /\ proc'[p].pc = "done"
           /\ proc'[p].op \in {"getAllTasks", "filterTasks"}
           /\ proc'[p].error = "none")
          => /\ proc'[p].outcome = "success"
             /\ \A x \in StoredAt :
                  Satisfies(RecordAt(x), proc'[p].args)
                  => RecordAt(x) \in Range(proc'[p].res[1])]_vars

\* an updateTask has succeeded on a record of one shard while another shard
\* cannot be opened
C16_Witness ==
  \E p \in Procs :
    /\ proc[p].op = "updateTask"
    /\ proc[p].pc = "done"
    /\ proc[p].outcome = "success"
    /\ proc[p].res[1] \in Range(files[proc[p].path].recs)
    /\ \E f \in FileNames \ {proc[p].path} : files[f].kind = "denied"

\* --------------------------------------------------------------------- C17
\* C17: whatever call of the file system fails (the listing of the shards,
\* the read of a shard, the open or the write of a shard write), every tool
\* call ends with an answer: success, not-found or a failure that carries
\* the error; none ends with an exception, and an error is never answered
\* as a success.
C17_NoUncaughtFailure ==
  \A p \in Procs :
    proc[p].pc = "done"
    => /\ proc[p].outcome \in {"success", "notFound", "failed"}
       /\ proc[p].outcome = "failed" <=> proc[p].error # "none"

\* a deleteTask has been answered with a failure because its shard write
\* failed after the open
C17_Witness ==
  \E p \in Procs :
    /\ proc[p].op = "deleteTask"
    /\ proc[p].pc = "done"
    /\ proc[p].outcome = "failed"
    /\ proc[p].error = "write"

\* --------------------------------------------------------------------- C18
\* the number of createTask calls made
Creates == Cardinality({i \in Ids : drawn[i] > 0})

\* the record of the only createTask made, once it has returned, as long as
\* no updateTask and no deleteTask has found it
FirstRecord ==
  IF Creates = 1 /\ Len(returned) = 1 /\ returned[1].id \notin touched
  THEN {returned[1]} ELSE {}

\* C18: with calls made one at a time on a store that has just been
\* constructed in an empty directory, a listAll before any createTask
\* returns the empty sequence; the first createTask succeeds; and every
\* later getTask of its id and every later listAll returns its record.
C18_EmptyStoreStart ==
  \A p \in Procs :
    proc[p].pc = "done" =>
      /\ proc[p].op = "getAllTasks" /\ Creates = 0
           => proc[p].outcome = "success" /\ proc[p].res = << <<>> >>
      /\ proc[p].op = "createTask" => proc[p].outcome = "success"
      /\ proc[p].op = "getAllTasks"
           => /\ proc[p].outcome = "success"
              /\ FirstRecord \subseteq Range(proc[p].res[1])
      /\ proc[p].op = "getTask" /\ proc[p].id \in Ids
           => \A r \in FirstRecord : proc[p].res = <<r>>

\* --------------------------------------------------------------------- C19
\* the value a createTask with these arguments has to store under key k
Supplied(args, k, default) == IF k \in DOMAIN args THEN args[k] ELSE default

\* C19: the record a createTask returns and appends to its shard has the
\* status of the call, pending if the call has none, and the priority of the
\* call, medium if the call has none.
C19_CreationDefaults ==
  \A p \in Procs :
    CreateDone(p) /\ proc[p].outcome = "success"
    => LET recs == files[proc[p].path].recs IN
       /\ proc[p].res[1].status = Supplied(proc[p].args, "status", "pending")
       /\ proc[p].res[1].priority
            = Supplied(proc[p].args, "priority", "medium")
       /\ recs # <<>>
       /\ recs[Len(recs)] = proc[p].res[1]

\* a createTask without status and priority has returned, and the store
\* holds a record created with status completed and priority high
C19_Witness ==
  /\ \E p \in Procs :
       /\ CreateDone(p)
       /\ DOMAIN proc[p].args \cap {"status", "priority"} = {}
       /\ proc[p].res[1].status = "pending"
       /\ proc[p].res[1].priority = "medium"
  /\ \E x \in StoredAt :
       /\ RecordAt(x).id \notin touched
       /\ RecordAt(x).status = "completed"
       /\ RecordAt(x).priority = "high"

\* --------------------------------------------------------------------- C20
\* the shards that exist
Existing == {f \in FileNames : files[f].kind # "absent"}

\* C20: listAll() enumerates every existing shard once and returns the
\* contents of the shards one after the other, in the order of the
\* enumeration, each shard's records in their stored order: every stored
\* record appears once and nothing else does.
C20_ListAllConcatenation ==
  \A p \in Procs :
    (/\ proc[p].op = "getAllTasks"
     /\ proc[p].pc = "done"
     /\ proc[p].outcome = "success")
    => /\ Range(proc[p].listed) = Existing
       /\ Len(proc[p].listed) = Cardinality(Existing)
       /\ proc[p].res[1] = ShardContents(proc[p].listed)
       /\ Len(proc[p].res[1]) = Cardinality(StoredAt)
       /\ \A x \in StoredAt :
            Cardinality({i \in 1..Len(proc[p].res[1]) :
                           proc[p].res[1][i] = RecordAt(x)}) = 1

\* a listAll has returned the records of two shards
C20_Witness ==
  \E p \in Procs :
    /\ proc[p].op = "getAllTasks"
    /\ proc[p].pc = "done"
    /\ Len(proc[p].listed) = 2
    /\ Len(proc[p].res[1]) = 2
    /\ files[proc[p].listed[1]].recs # <<>>
    /\ files[proc[p].listed[2]].recs # <<>>

\* --------------------------------------------------------------------- C21
Reads == {"getTask", "getAllTasks", "filterTasks"}

\* C21: no step of a getTask, listAll or filterTasks changes the content of a
\* shard or the set of the shards that exist, whether the id is found or not
\* and whether every shard can be read or not.
C21_ReadsArePure ==
  [][\A p \in Procs :
       (/\ proc'[p] # proc[p]
        /\ proc[p].op \in Reads \/ proc'[p].op \in Reads)
       => files' = files]_vars

\* a getTask was answered not-found in a store that holds records and has a
\* shard that cannot be read
C21_Witness ==
  \E p \in Procs :
    /\ proc[p].op = "getTask"
    /\ proc[p].pc = "done"
    /\ proc[p].outcome = "notFound"
    /\ StoredAt # {}
    /\ \E f \in FileNames : Unreadable(f)

\* --------------------------------------------------------------------- C22
Mutations == {"createTask", "updateTask", "deleteTask"}

\* the sequence c is about to write differs from the stored sequence as the
\* operation of c allows: one record more at the end, one record replaced
\* in place, or one record less
AllowedChange(c, stored) ==
  IF c.op = "createTask" THEN
    /\ Len(c.todos) = Len(stored) + 1
    /\ \A i \in 1..Len(stored) : c.todos[i] = stored[i]
    /\ c.todos[Len(c.todos)].id = c.id
  ELSE IF c.op = "deleteTask" /\ c.hard THEN
    /\ Len(c.todos) = Len(stored) - 1
    /\ stored[c.index].id = c.id
    /\ \A i \in 1..Len(c.todos) :
         c.todos[i] = IF i < c.index THEN stored[i] ELSE stored[i + 1]
  ELSE
    /\ Len(c.todos) = Len(stored)
    /\ stored[c.index].id = c.id
    /\ c.todos[c.index].id = c.id
    /\ \A i \in 1..Len(stored) : i # c.index => c.todos[i] = stored[i]

\* C22: a createTask, updateTask or deleteTask changes no shard but the one
\* it writes; what it writes is the stored sequence with the new record
\* appended (create), with the targeted record replaced in place (update,
\* soft delete) or with the targeted record removed (hard delete), every
\* other record and the order kept; and that is what the shard holds after
\* the write.
C22_SingleShardMutation ==
  [][\A p \in Procs :
       (/\ proc'[p] # proc[p]
        /\ proc[p].op \in Mutations \/ proc'[p].op \in Mutations)
       => /\ \A f \in FileNames :
               proc[p].pc \notin {"open", "write"} \/ f # proc[p].path
               => files'[f] = files[f]
          /\ proc[p].pc = "open"
               => AllowedChange(proc[p], files[proc[p].path].recs)
          /\ proc[p].pc = "write"
               => /\ files'[proc[p].path].kind = "json"
                  /\ Len(files'[proc[p].path].recs) = Len(proc[p].todos)
                  /\ \A i \in 1..Len(proc[p].todos) :
                       \/ files'[proc[p].path].recs[i] = proc[p].todos[i]
                       \/ /\ proc[p].todos[i].id = proc[p].id
                          /\ files'[proc[p].path].recs[i] = proc[p].res[1]
     ]_vars

\* a hard deleteTask has removed the first of two records of a shard
C22_Witness ==
  \E p \in Procs :
    /\ proc[p].op = "deleteTask"
    /\ proc[p].hard
    /\ proc[p].pc = "done"
    /\ proc[p].outcome = "success"
    /\ proc[p].index = 1
    /\ Len(files[proc[p].path].recs) = 1

\* --------------------------------------------------------------------- C23
\* C23: an updateTask(id, {status: s2, ...}) of a stored record is never
\* answered not-found or with a failure, whatever the status s1 of the
\* record; it succeeds, and the record it returns and stores has status s2.
C23_NoTransitionLegality ==
  [][\A p \in Procs :
       (/\ proc'[p] # proc[p]
        /\ proc'[p].op = "updateTask"
        /\ "status" \in DOMAIN proc'[p].args)
       => /\ proc[p].pc \in {"idle", "scan"}
             /\ StoredCopies(proc'[p].id) # {}
               => proc'[p].pc # "done"
          /\ proc[p].pc \in {"open", "write"} /\ proc'[p].pc = "done"
               => /\ proc'[p].outcome = "success"
                  /\ proc'[p].res[1].status = proc'[p].args.status
                  /\ proc'[p].res[1] \in Range(files'[proc'[p].path].recs)]_vars

\* an updateTask has set a cancelled record to in_progress
C23_Witness ==
  \E p \in Procs :
    /\ proc[p].op = "updateTask"
    /\ proc[p].pc = "done"
    /\ proc[p].outcome = "success"
    /\ proc[p].old[1].status = "cancelled"
    /\ proc[p].res[1].status = "in_progress"
    /\ \E x \in StoredCopies(proc[p].id) : RecordAt(x).status = "in_progress"

\* --------------------------------------------------------------------- C24
Stamping(c) == c.op = "updateTask" \/ (c.op = "deleteTask" /\ ~c.hard)

\* C24: an updateTask (with or without fields) and a soft deleteTask that
\* find their record give it the clock reading of that call as updatedAt,
\* and that is what they store and return; the stored updatedAt of a record
\* never decreases, and every stored record has createdAt <= updatedAt.
C24_UpdatedAtRefreshed ==
  [][/\ \A p \in Procs :
         (proc'[p] # proc[p] /\ Stamping(proc'[p]))
         => /\ proc[p].pc = "scan" /\ proc'[p].pc = "open"
                 => /\ proc'[p].res[1].updatedAt = now'
                    /\ proc'[p].todos[proc'[p].index].updatedAt = now'
                    /\ now' >= proc'[p].old[1].updatedAt
            /\ proc[p].pc = "write" /\ proc'[p].pc = "done"
                 => /\ proc'[p].outcome = "success"
                    /\ proc'[p].res[1].updatedAt = now'
                    /\ proc'[p].res[1] \in Range(files'[proc'[p].path].recs)
     /\ \A x \in StoredAt : \A f \in FileNames :
         \A i \in 1..Len(files'[f].recs) :
           files'[f].recs[i].id = RecordAt(x).id
           => files'[f].recs[i].updatedAt >= RecordAt(x).updatedAt
     /\ \A f \in FileNames : \A i \in 1..Len(files'[f].recs) :
           files'[f].recs[i].createdAt <= files'[f].recs[i].updatedAt]_vars

\* an updateTask without any field has moved updatedAt of a record, and a
\* soft deleteTask has done so too
C24_Witness ==
  /\ \E p \in Procs :
       /\ proc[p].op = "updateTask"
       /\ proc[p].pc = "done"
       /\ proc[p].outcome = "success"
       /\ proc[p].call = <<>>
       /\ proc[p].old[1].updatedAt < proc[p].res[1].updatedAt
       /\ proc[p].res[1] \in Range(files[proc[p].path].recs)
  /\ \E x \in StoredAt :
       /\ RecordAt(x).status = "cancelled"
       /\ RecordAt(x).createdAt < RecordAt(x).updatedAt

\* --------------------------------------------------------------------- C25
\* C25: a shard other than the default one comes into existence only by the
\* write of a createTask routed to it; a shard that exists exists in every
\* later state; and the write of a hard deleteTask that removed the last
\* record leaves its shard existing, with no record in it.
C25_ShardsLazyNeverDeleted ==
  [][\A f \in FileNames :
       /\ files[f] # NoFile => files'[f] # NoFile
       /\ (f # DefaultShard /\ files[f] = NoFile /\ files'[f] # NoFile)
          => \E p \in Procs :
               /\ proc[p].op = "createTask"
               /\ proc[p].pc = "open"
               /\ proc'[p].pc = "write"
               /\ proc[p].path = f
               /\ f = filePathOf(todoDataOf(proc[p].args))
       /\ \A p \in Procs :
            (/\ proc[p].op = "deleteTask" /\ proc[p].hard /\ proc[p].path = f
             /\ proc[p].pc = "write" /\ proc'[p].pc = "done"
             /\ proc[p].todos = <<>>)
            => files'[f] = JsonFile(<<>>)]_vars

\* a hard deleteTask has removed the only record of a project shard, and
\* the shard is there, empty
C25_Witness ==
  \E p \in Procs :
    /\ proc[p].op = "deleteTask"
    /\ proc[p].hard
    /\ proc[p].pc = "done"
    /\ proc[p].outcome = "success"
    /\ proc[p].path # DefaultShard
    /\ proc[p].index = 1
    /\ proc[p].todos = <<>>
    /\ files[proc[p].path] = JsonFile(<<>>)

\* --------------------------------------------------------------------- C26
SixOperations ==
  {"getAllTasks", "getTask", "createTask", "updateTask", "deleteTask",
   "filterTasks"}

\* C26: once the server has started, the operations registered are the six
\* named getAllTasks, getTask, createTask, updateTask, deleteTask and
\* filterTasks, each registered exactly once; and no call is served, nor has
\* any been, while the server has not started.
C26_SixOperationsRegistered ==
  /\ server.started
       => /\ \A name \in SixOperations :
               Cardinality({i \in 1..Len(server.tools) :
                              server.tools[i] = name}) = 1
          /\ Range(server.tools) = SixOperations
  /\ ~server.started
       => /\ ops = 0
          /\ returned = <<>>
  /\ \A p \in Procs :
       proc[p].op # "idle"
       => /\ server.started
          /\ proc[p].op \in Range(server.tools)

\* the started server has served a createTask and is serving a filterTasks
C26_Witness ==
  /\ server.started
  /\ Len(server.tools) = Cardinality(SixOperations)
  /\ returned # <<>>
  /\ \E p \in Procs : proc[p].op = "filterTasks" /\ proc[p].pc = "done"

\* --------------------------------------------------------------------- C27
StringKeys == {"content", "project", "conversation"}

\* C27: after a successful updateTask, a field the call left out or supplied
\* as undefined is stored as it was before the call, and a field the call
\* supplied as the empty string is stored as the empty string.
C27_PresenceDecidesMerge ==
  \A p \in Procs :
    (/\ proc[p].op = "updateTask"
     /\ proc[p].pc = "done"
     /\ proc[p].outcome = "success")
    => LET c == proc[p]
           stored == files[c.path].recs[c.index]
       IN
       /\ stored.id = c.id
       /\ \A k \in CallerKeys :
            /\ (k \notin DOMAIN c.call \/ IsUndefined(c.call, k))
                 => SameField(c.old[1], stored, k)
            /\ (k \in StringKeys /\ k \in DOMAIN c.call /\ c.call[k] = <<>>)
                 => /\ k \in DOMAIN stored
                    /\ stored[k] = <<>>
                    /\ c.res[1][k] = <<>>

\* an updateTask with content '' and conversation undefined has emptied the
\* content of a record and left its conversation as it was
C27_Witness ==
  \E p \in Procs :
    /\ proc[p].op = "updateTask"
    /\ proc[p].pc = "done"
    /\ proc[p].outcome = "success"
    /\ "content" \in DOMAIN proc[p].call
    /\ proc[p].call.content = <<>>
    /\ "conversation" \in DOMAIN proc[p].call
    /\ proc[p].call.conversation = undefined
    /\ proc[p].old[1].content # <<>>
    /\ "conversation" \in DOMAIN proc[p].old[1]
    /\ files[proc[p].path].recs[proc[p].index].content = <<>>
    /\ files[proc[p].path].recs[proc[p].index].conversation
         = proc[p].old[1].conversation

\* --------------------------------------------------------------------- C28
NoProject(args) == "project" \notin DOMAIN args \/ args.project = <<>>

\* C28: a createTask without project, or with project '', reads and writes
\* the default shard, where its record is the last one once it has
\* succeeded; a createTask routed to a shard that does not exist reads it as
\* the empty sequence, and its write leaves the shard with exactly the
\* record it returns.
C28_DefaultRouting ==
  [][\A p \in Procs :
       (proc'[p] # proc[p] /\ proc'[p].op = "createTask")
       => LET c == proc[p]
              d == proc'[p]
          IN
          /\ NoProject(d.args) => d.path = DefaultShard
          /\ (c.pc = "idle" /\ files[d.path] = NoFile)
               => /\ d.pc = "open"
                  /\ Len(d.todos) = 1
                  /\ d.todos[1].id = d.id
          /\ (c.pc = "write" /\ d.pc = "done")
               => /\ d.outcome = "success"
                  /\ files'[d.path].kind = "json"
                  /\ Len(files'[d.path].recs) = Len(d.todos)
                  /\ files'[d.path].recs[Len(d.todos)] = d.res[1]
                  /\ NoProject(d.args)
                       => d.res[1] \in Range(files'[DefaultShard].recs)]_vars

\* a createTask with project '' has put its record into the default shard,
\* and the first createTask of a project has left a shard of one record
C28_Witness ==
  /\ \E p \in Procs :
       /\ CreateDone(p)
       /\ proc[p].outcome = "success"
       /\ "project" \in DOMAIN proc[p].args
       /\ proc[p].args.project = <<>>
       /\ proc[p].res[1] \in Range(files[DefaultShard].recs)
  /\ \E f \in FileNames \ {DefaultShard} :
       /\ files[f].kind = "json"
       /\ Len(files[f].recs) = 1
       /\ home[files[f].recs[1].id] = f

\* --------------------------------------------------------------------- C29
\* C29: the record a successful createTask returns has the id the store
\* drew for it and one creation time as both createdAt and updatedAt, a
\* reading of the store's clock, whatever id, createdAt or updatedAt the
\* caller put into the call.
C29_StoreAssignedIdentity ==
  \A p \in Procs :
    (CreateDone(p) /\ proc[p].outcome = "success")
    => LET r == proc[p].res[1] IN
       /\ r.id = proc[p].id
       /\ r.id \in Ids
       /\ r.createdAt \in 0..now
       /\ r.updatedAt = r.createdAt
       /\ r \in Range(returned)

\* --------------------------------------------------------------------- C30
\* C30: once the constructor's write of the empty sequence to the default
\* shard and the write of a successful createTask routed to the default
\* shard have both completed, in whatever order their steps were taken, the
\* default shard holds the record the createTask returned.
C30_InitDoesNotClobber ==
  \A p \in Procs :
    (/\ initw = "done"
     /\ CreateDone(p)
     /\ proc[p].outcome = "success"
     /\ proc[p].path = DefaultShard)
    => proc[p].res[1] \in Range(files[DefaultShard].recs)

\* --------------------------------------------------------------------- C31
\* C31: with calls that overlap, once a hard deleteTask of an id has returned
\* success no shard holds a record with that id, in that state and in every
\* later one, also when an updateTask or a soft deleteTask of that id had
\* read the shard before the hard delete wrote it.
C31_HardDeleteFinalConcurrent ==
  \A f \in FileNames : \A i \in 1..Len(files[f].recs) :
    files[f].recs[i].id \notin hardDeleted

\* --------------------------------------------------------------------- C32
\* C32: as long as no updateTask and no deleteTask has found a record, every
\* record in the default shard was created without project or with the
\* empty project: none of them carries a non-empty project name.
C32_DefaultShardPurity ==
  touched = {}
  => \A i \in 1..Len(files[DefaultShard].recs) :
       LET r == files[DefaultShard].recs[i] IN
       "project" \in DOMAIN r => r.project = <<>>

\* --------------------------------------------------------------------- C33
\* the sequence the mutating call c read from its shard, recovered from the
\* sequence it built for the write
ReadBefore(c) ==
  IF c.op = "createTask" THEN SubSeq(c.todos, 1, Len(c.todos) - 1)
  ELSE IF c.op = "deleteTask" /\ c.hard THEN
    SubSeq(c.todos, 1, c.index - 1) \o c.old
      \o SubSeq(c.todos, c.index, Len(c.todos))
  ELSE [c.todos EXCEPT ![c.index] = c.old[1]]

\* C33: when the shard write of a createTask, updateTask or deleteTask has
\* failed, the call has reported a failure and the shard reads as the
\* sequence of records it held when the call read it: no record is missing
\* and none is replaced.
C33_FailedWriteLeavesShardIntact ==
  \A p \in Procs :
    (/\ proc[p].op \in Mutations
     /\ proc[p].pc = "done"
     /\ proc[p].error \in {"open", "write"})
    => /\ proc[p].outcome = "failed"
       /\ readTodosFile(files[proc[p].path]) = ReadBefore(proc[p])

====
